---------------------------- MODULE Spec2Model ----------------------------
(***************************************************************************)
(* Model of the workana video transcription service.                      *)
(*                                                                         *)
(*   src/app.py                       the Flask endpoint /procesar-video   *)
(*   src/workana_video_transcriber.py formatear_tiempo, the audio          *)
(*                                    extractor, the transcription engine  *)
(*                                    and the orchestrator                 *)
(*                                    procesar_video_a_json                *)
(*                                                                         *)
(* The server is one process (one pid) whose development server handles   *)
(* each request in a thread of its own, so the requests of the model run  *)
(* interleaved; a step of the model is one access to the shared file      *)
(* system together with the local computation around it.                  *)
(*                                                                         *)
(* Representation.  A path is a sequence of components whose last two are *)
(* the stem and the extension of the file name (<<"a","v",".mp4">> is     *)
(* a/v.mp4, <<>> is the empty string).  A text is a sequence of one       *)
(* character strings.  A time is a whole number of 1/10000 s, so that     *)
(* round(t, 3) has something to round.                                    *)
(***************************************************************************)
EXTENDS Integers, Sequences, FiniteSets, TLC

\* ------------------------------------------------------------------ bounds
MaxSegs == 2         \* number of spoken segments of the longest video
MaxSeconds == 6100   \* largest whole second count given to formatear_tiempo

\* The requests in flight in the one server process.
Requests == {1, 2}

\* ------------------------------------------------------- the file system
\* os.getpid(): one value, all requests are served by the same process.
Pid == 4242

\* Video files that exist on disk; the program only reads them.
ExistingVideos == { <<"a", "v", ".mp4">>, <<"b", "v", ".mp4">>, <<"a", "u", ".mp4">> }
\* A path no file is at.
MissingVideo == <<"a", "w", ".mp4">>
VideoPaths == ExistingVideos \cup {MissingVideo}

\* Output paths a client may name: one in the working directory, one in a
\* directory "d" that may not exist yet.
OutPaths == { <<"o", ".json">>, <<"d", "o", ".json">> }

\* os.path.dirname / os.path.basename / os.path.splitext on such a path.
DirName(p) == IF Len(p) <= 2 THEN <<>> ELSE SubSeq(p, 1, Len(p) - 2)
BaseName(p) == IF Len(p) <= 2 THEN p ELSE SubSeq(p, Len(p) - 1, Len(p))
SplitExtStem(b) == IF Len(b) = 0 THEN <<>> ELSE <<b[1]>>

\* Missing variant of os.path.exists(ruta_video_entrada): never says no.
VideoExistsAlways(p) == TRUE
\* os.path.exists(ruta_video_entrada)
VideoExists(p) == p \in ExistingVideos

\* ruta_audio_temporal: f"audio_temporal_para_{nombre_base_video}_{pid}.mp3"
RutaAudioTemporal(ruta_video) ==
    <<"audio_temporal_para_">> \o SplitExtStem(BaseName(ruta_video)) \o <<Pid, ".mp3">>

TempPaths == { RutaAudioTemporal(v) : v \in VideoPaths }

\* ------------------------------------------------------- request bodies
\* A field of the JSON object: given = FALSE when the key is omitted
\* (data.get returns None), val = <<>> for the empty string.
Field(g, v) == [given |-> g, val |-> v]
VideoFields == {Field(FALSE, <<>>), Field(TRUE, <<>>)} \cup {Field(TRUE, p) : p \in VideoPaths}
OutFields == {Field(FALSE, <<>>), Field(TRUE, <<>>)} \cup {Field(TRUE, p) : p \in OutPaths}
\* kind: "nojson" (request.is_json is false), "array" (JSON, but no object:
\* data.get raises AttributeError), "object" (a JSON object)
Bodies ==
    { [kind |-> k, ruta_video_entrada |-> Field(FALSE, <<>>),
       ruta_json_salida |-> Field(FALSE, <<>>)] : k \in {"nojson", "array"} }
    \cup { [kind |-> "object", ruta_video_entrada |-> v, ruta_json_salida |-> o] :
             v \in VideoFields, o \in OutFields }
NoBody == [kind |-> "none", ruta_video_entrada |-> Field(FALSE, <<>>),
           ruta_json_salida |-> Field(FALSE, <<>>)]

\* Weaker variant of the truth test: only an omitted key counts.
FalsyOnlyNone(f) == ~f.given
\* `not x` on a field value: None and "" are falsy.
Falsy(f) == ~f.given \/ f.val = <<>>

\* ------------------------------------------------------------- segments
SegA == [text |-> <<" ", "h", "i">>, start |-> 0, end |-> 12346]
SegB == [text |-> <<"o", " ", "k", " ">>, start |-> 599990, end |-> 36610000]

\* What is spoken in each video: MaxSegs segments, none at all (a silent
\* video), two segments.
Speech(v) ==
    IF v = <<"a", "v", ".mp4">> THEN [k \in 1..MaxSegs |-> IF k % 2 = 1 THEN SegA ELSE SegB]
    ELSE IF v = <<"b", "v", ".mp4">> THEN <<>>
    ELSE <<SegB, SegA>>

Prefixes(s) == { SubSeq(s, 1, n) : n \in 0..Len(s) }

\* What transcribir_audio_con_segmentos_local returns: ok = FALSE is None.
NoResult == [ok |-> FALSE, segments |-> <<>>]
Result(segs) == [ok |-> TRUE, segments |-> segs]


\* ---------------------------------------------------- pure helper functions
Whitespace == {" ", "\t", "\n"}

RECURSIVE LStrip(_)
LStrip(s) == IF s # <<>> /\ Head(s) \in Whitespace THEN LStrip(Tail(s)) ELSE s
RECURSIVE RStrip(_)
RStrip(s) == IF s # <<>> /\ s[Len(s)] \in Whitespace THEN RStrip(SubSeq(s, 1, Len(s) - 1)) ELSE s
\* str.strip()
Strip(s) == RStrip(LStrip(s))

DigitChars == <<"0", "1", "2", "3", "4", "5", "6", "7", "8", "9">>
RECURSIVE Digits(_)
\* the decimal digits of n >= 0, most significant first
Digits(n) == IF n < 10 THEN <<DigitChars[n + 1]>> ELSE Append(Digits(n \div 10), DigitChars[(n % 10) + 1])
\* format spec 02d: at least two digits, padded with zeros
Pad02d(n) == IF n < 10 THEN <<"0">> \o Digits(n) ELSE Digits(n)

\* Variant that wraps the minutes at the hour, as an HH:MM:SS clock would.
formatear_tiempo_wrap(t) == Pad02d(((t \div 10000) \div 60) % 60) \o <<":">> \o Pad02d((t \div 10000) % 60)
\* formatear_tiempo(segundos_totales); t is the time in 1/10000 s
formatear_tiempo(t) == Pad02d(t \div 600000) \o <<":">> \o Pad02d((t % 600000) \div 10000)

\* round(t, 3) as a whole number of milliseconds.  A decimal tie (last digit
\* 5) goes to the even neighbour; Segments holds no tie.
Round3(t) == LET q == t \div 10  r == t % 10 IN IF r < 5 THEN q ELSE IF r > 5 THEN q + 1 ELSE IF q % 2 = 0 THEN q ELSE q + 1

\* Variant of the loop body that numbers the records from 0.
ParrafoZeroBased(i, segmento) == [id_parrafo |-> i, parrafo_texto |-> Strip(segmento.text), tiempo_inicio_segundos |-> Round3(segmento.start), tiempo_fin_segundos |-> Round3(segmento.end), tiempo_inicio_formato_MMSS |-> formatear_tiempo(segmento.start), tiempo_fin_formato_MMSS |-> formatear_tiempo(segmento.end)]
\* The record appended for the segment at index i of enumerate (0-based).
Parrafo(i, segmento) ==
    [id_parrafo |-> i + 1,
     parrafo_texto |-> Strip(segmento.text),
     tiempo_inicio_segundos |-> Round3(segmento.start),
     tiempo_fin_segundos |-> Round3(segmento.end),
     tiempo_inicio_formato_MMSS |-> formatear_tiempo(segmento.start),
     tiempo_fin_formato_MMSS |-> formatear_tiempo(segmento.end)]

\* datos_json_salida after the loop over enumerate(segmentos_transcritos)
DatosJsonSalida(segs) == [k \in 1..Len(segs) |-> Parrafo(k - 1, segs[k])]

\* ------------------------------------------------------ file contents
Absent == [kind |-> "absent", mensaje |-> "", parrafos |-> <<>>]
\* whatever an earlier run or another program left at the output path
OldContent == [kind |-> "old", mensaje |-> "", parrafos |-> <<>>]
\* a file opened with mode 'w' and not (or not fully) written
Truncated == [kind |-> "partial", mensaje |-> "", parrafos |-> <<>>]
\* json.dump({"mensaje": ..., "parrafos": []})
PlaceholderDoc == [kind |-> "object", mensaje |-> "No se encontraron segmentos de voz en el audio.", parrafos |-> <<>>]
\* json.dump(datos_json_salida)
ListDoc(datos) == [kind |-> "array", mensaje |-> "", parrafos |-> datos]

\* A temp audio file: the request that wrote it, the video it was taken
\* from, and whether the extractor finished writing it.  owner = 0: no file.
NoAudio == [owner |-> 0, src |-> <<>>, whole |-> FALSE]
Audio(r, v, w) == [owner |-> r, src |-> v, whole |-> w]

\* The document the orchestrator dumps for a transcription result.
Documento(segs) == IF segs = <<>> THEN PlaceholderDoc ELSE ListDoc(DatosJsonSalida(segs))

\* ------------------------------------------------------------------ state
VARIABLES
    pc,          \* where each request is
    body,        \* the request body each request came with
    resultado,   \* segmentos_transcritos of each request
    exito,       \* what procesar_video_a_json returned: "none", "True", "False"
    status,      \* the HTTP status answered, 0 while there is none
    hist,        \* the file system and library calls each request made, in order
    foreign,     \* what each request did to a temp file of another request in flight
    dirs,        \* the directories that exist
    tmpFile,     \* temp audio path -> the file there: who wrote it, from which video
    outFile,     \* output path -> content of the file
    segundos,    \* argument of a call of formatear_tiempo on its own
    mmss         \* what that call returned

vars == <<pc, body, resultado, exito, status, hist, foreign, dirs, tmpFile, outFile, segundos, mmss>>
reqVars == <<pc, body, resultado, exito, status, hist, foreign, dirs, tmpFile, outFile>>
fmtVars == <<segundos, mmss>>

RutaVideo(r) == body[r].ruta_video_entrada.val
RutaJson(r) == body[r].ruta_json_salida.val
RutaAudio(r) == RutaAudioTemporal(RutaVideo(r))

\* A directory can hold a file only if it exists; "" is the working directory.
DirOk(p, ds) == DirName(p) = <<>> \/ DirName(p) \in ds

\* The server has started and no request has arrived.
InitServer ==
    /\ pc = [r \in Requests |-> "idle"]
    /\ body = [r \in Requests |-> NoBody]
    /\ resultado = [r \in Requests |-> NoResult]
    /\ exito = [r \in Requests |-> "none"]
    /\ status = [r \in Requests |-> 0]
    /\ hist = [r \in Requests |-> <<>>]
    /\ foreign = [r \in Requests |-> {}]
    /\ dirs \in {{}, {<<"d">>}}
    /\ tmpFile = [p \in TempPaths |-> NoAudio]
    /\ outFile \in {f \in [OutPaths -> {Absent, OldContent}] : \A p \in OutPaths : DirOk(p, dirs) \/ f[p] = Absent}

Init ==
    /\ InitServer
    /\ segundos = 0
    /\ mmss = <<>>

\* -------------------------------------------------------------- endpoint
\* if exito: ... 200  else: ... 500
Respuesta(ex) == IF ex = "True" THEN 200 ELSE 500

\* The orchestrator returns ex and the endpoint answers.
Return(r, ex) ==
    /\ exito' = [exito EXCEPT ![r] = ex]
    /\ status' = [status EXCEPT ![r] = Respuesta(ex)]
    /\ resultado' = [resultado EXCEPT ![r] = NoResult]
    /\ pc' = [pc EXCEPT ![r] = "done"]

\* The endpoint answers without having called the orchestrator.
Answer(r, code) ==
    /\ status' = [status EXCEPT ![r] = code]
    /\ pc' = [pc EXCEPT ![r] = "done"]
    /\ UNCHANGED <<exito, resultado>>

Log(r, ev) == hist' = [hist EXCEPT ![r] = Append(@, ev)]

\* A request arrives: the checks of the body and of the video path.
RecibirSolicitud(r) ==
    /\ pc[r] = "idle"
    /\ \E b \in Bodies :
        /\ body' = [body EXCEPT ![r] = b]
        /\ IF b.kind = "nojson" THEN
               Answer(r, 400) /\ UNCHANGED hist
           ELSE IF b.kind # "object" THEN
               Answer(r, 500) /\ UNCHANGED hist
           ELSE IF Falsy(b.ruta_video_entrada) \/ Falsy(b.ruta_json_salida) THEN
               Answer(r, 400) /\ UNCHANGED hist
           ELSE IF ~VideoExists(b.ruta_video_entrada.val) THEN
               Answer(r, 404) /\ Log(r, "exists_video")
           ELSE
               /\ pc' = [pc EXCEPT ![r] = "check_dir"]
               /\ Log(r, "exists_video")
               /\ UNCHANGED <<status, exito, resultado>>
    /\ UNCHANGED <<foreign, dirs, tmpFile, outFile, fmtVars>>

\* directorio_salida_json and its existence test
RevisarDirectorio(r) ==
    /\ pc[r] = "check_dir"
    /\ pc' = [pc EXCEPT ![r] = IF DirName(RutaJson(r)) # <<>> /\ DirName(RutaJson(r)) \notin dirs THEN "makedirs" ELSE "extract"]
    /\ Log(r, "exists_dir")
    /\ UNCHANGED <<body, resultado, exito, status, foreign, dirs, tmpFile, outFile, fmtVars>>

\* os.makedirs(directorio_salida_json, exist_ok=True), or its OSError
CrearDirectorio(r) ==
    /\ pc[r] = "makedirs"
    /\ \E ok \in BOOLEAN :
        IF ok THEN
            /\ dirs' = dirs \cup {DirName(RutaJson(r))}
            /\ pc' = [pc EXCEPT ![r] = "extract"]
            /\ Log(r, "makedirs_ok")
            /\ UNCHANGED <<status, exito, resultado>>
        ELSE
            /\ Answer(r, 500)
            /\ Log(r, "makedirs_fail")
            /\ UNCHANGED dirs
    /\ UNCHANGED <<body, foreign, tmpFile, outFile, fmtVars>>

\* ----------------------------------------------------------- orchestrator
\* Another request that is still being served.
InFlight(q) == pc[q] \notin {"idle", "done"}
\* r touches the temp file at path p: is it the file of another request in flight?
Ajeno(r, p) == tmpFile[p].owner \notin {0, r} /\ InFlight(tmpFile[p].owner)
Touch(r, p, op) == foreign' = [foreign EXCEPT ![r] = IF Ajeno(r, p) THEN @ \cup {op} ELSE @]

\* extraer_audio_de_video(ruta_video_entrada, ruta_audio_temporal): the audio
\* is written and the path returned, or an exception is caught and None
\* returned, with or without a file left behind.
ExtraerAudio(r) ==
    /\ pc[r] = "extract"
    /\ \E ok \in BOOLEAN, escrito \in BOOLEAN :
        /\ ok => escrito
        /\ tmpFile' = IF escrito THEN [tmpFile EXCEPT ![RutaAudio(r)] = Audio(r, RutaVideo(r), ok)] ELSE tmpFile
        /\ IF escrito THEN Touch(r, RutaAudio(r), "write") ELSE UNCHANGED foreign
        /\ IF ok THEN
               /\ pc' = [pc EXCEPT ![r] = "transcribe"]
               /\ Log(r, "extract_ok")
               /\ UNCHANGED <<exito, status, resultado>>
           ELSE
               /\ Return(r, "False")
               /\ Log(r, "extract_fail")
    /\ UNCHANGED <<body, dirs, outFile, fmtVars>>

\* Where the orchestrator goes once the transcription engine has returned.
TrasTranscribirSoloExito(res) == IF res.ok THEN "cleanup" ELSE "fail"
TrasTranscribir(res) == "cleanup"

\* What the engine can return for the audio file f: None when the file is
\* missing or anything fails, else what is spoken in the audio, of which a
\* file that was not written to the end holds only a first part.
Transcripciones(f) ==
    {NoResult} \cup
    (IF f.owner = 0 THEN {}
     ELSE IF f.whole THEN {Result(Speech(f.src))}
     ELSE {Result(s) : s \in Prefixes(Speech(f.src))})

\* transcribir_audio_con_segmentos_local(ruta_audio_extraido)
TranscribirAudio(r) ==
    /\ pc[r] = "transcribe"
    /\ \E res \in Transcripciones(tmpFile[RutaAudio(r)]) :
        /\ Log(r, IF ~res.ok THEN "transcribe_none" ELSE IF res.segments = <<>> THEN "transcribe_empty" ELSE "transcribe_segments")
        /\ IF TrasTranscribir(res) = "cleanup" THEN
               /\ pc' = [pc EXCEPT ![r] = "cleanup"]
               /\ resultado' = [resultado EXCEPT ![r] = res]
               /\ UNCHANGED <<exito, status>>
           ELSE
               Return(r, "False")
    /\ Touch(r, RutaAudio(r), "read")
    /\ UNCHANGED <<body, dirs, tmpFile, outFile, fmtVars>>

\* After the cleanup: None aborts, anything else goes on to the output file.
TrasLimpieza(r) ==
    IF ~resultado[r].ok THEN
        Return(r, "False")
    ELSE
        /\ pc' = [pc EXCEPT ![r] = "open"]
        /\ UNCHANGED <<exito, status, resultado>>

\* if os.path.exists(ruta_audio_extraido):
RevisarAudioTemporal(r) ==
    /\ pc[r] = "cleanup"
    /\ IF tmpFile[RutaAudio(r)].owner # 0 THEN
           /\ pc' = [pc EXCEPT ![r] = "remove"]
           /\ Log(r, "exists_audio")
           /\ UNCHANGED <<exito, status, resultado>>
       ELSE
           /\ TrasLimpieza(r)
           /\ Log(r, "no_audio")
    /\ UNCHANGED <<body, foreign, dirs, tmpFile, outFile, fmtVars>>

\* Variant of os.remove that leaves the file where it is.
RemoveKeeps(f, ok) == f
\* The file at a path after os.remove on it returned (ok) or raised.
Remove(f, ok) == IF ok THEN NoAudio ELSE f

\* os.remove(ruta_audio_extraido), or its OSError, which is logged
EliminarAudioTemporal(r) ==
    /\ pc[r] = "remove"
    /\ \E ok \in BOOLEAN :
        /\ tmpFile[RutaAudio(r)].owner = 0 => ~ok
        /\ tmpFile' = [tmpFile EXCEPT ![RutaAudio(r)] = Remove(@, ok)]
        /\ IF ok THEN Touch(r, RutaAudio(r), "delete") ELSE UNCHANGED foreign
        /\ Log(r, IF ok THEN "remove_ok" ELSE "remove_fail")
    /\ TrasLimpieza(r)
    /\ UNCHANGED <<body, dirs, outFile, fmtVars>>

\* What the orchestrator returns when writing the output raised IOError:
\* the placeholder branch logs the error and returns True all the same.
RetornoTrasIOError(segs) == IF segs = <<>> THEN "True" ELSE "False"

\* open(ruta_json_salida, 'w'): the file is created or truncated, or IOError
AbrirSalida(r) ==
    /\ pc[r] = "open"
    /\ \E ok \in BOOLEAN :
        /\ ok => DirOk(RutaJson(r), dirs)
        /\ IF ok THEN
               /\ outFile' = [outFile EXCEPT ![RutaJson(r)] = Truncated]
               /\ pc' = [pc EXCEPT ![r] = "dump"]
               /\ Log(r, "open_ok")
               /\ UNCHANGED <<exito, status, resultado>>
           ELSE
               /\ Return(r, RetornoTrasIOError(resultado[r].segments))
               /\ Log(r, "open_fail")
               /\ UNCHANGED outFile
    /\ UNCHANGED <<body, foreign, dirs, tmpFile, fmtVars>>

\* json.dump(..., f) and the close of the file, or IOError part way
VolcarSalida(r) ==
    /\ pc[r] = "dump"
    /\ \E ok \in BOOLEAN :
        IF ok THEN
            /\ outFile' = [outFile EXCEPT ![RutaJson(r)] = Documento(resultado[r].segments)]
            /\ Return(r, "True")
            /\ Log(r, "dump_ok")
        ELSE
            /\ outFile' = [outFile EXCEPT ![RutaJson(r)] = Truncated]
            /\ Return(r, RetornoTrasIOError(resultado[r].segments))
            /\ Log(r, "dump_fail")
    /\ UNCHANGED <<body, foreign, dirs, tmpFile, fmtVars>>

Step(r) ==
    \/ RecibirSolicitud(r)
    \/ RevisarDirectorio(r)
    \/ CrearDirectorio(r)
    \/ ExtraerAudio(r)
    \/ TranscribirAudio(r)
    \/ RevisarAudioTemporal(r)
    \/ EliminarAudioTemporal(r)
    \/ AbrirSalida(r)
    \/ VolcarSalida(r)

Next == \E r \in Requests : Step(r)

Spec == Init /\ [][Next]_vars

\* ------------------------------------------- formatear_tiempo on its own
InitFmt ==
    /\ InitServer
    /\ segundos \in 0..MaxSeconds
    /\ mmss = <<>>

Formatear ==
    /\ mmss = <<>>
    /\ mmss' = formatear_tiempo(segundos * 10000)
    /\ UNCHANGED <<segundos, reqVars>>

NextFmt == Formatear

SpecFmt == InitFmt /\ [][NextFmt]_vars

\* ================================================================ claims
Has(r, ev) == \E i \in 1..Len(hist[r]) : hist[r][i] = ev
Done(r) == pc[r] = "done"
\* the position of the first event of h that is in E, 0 when there is none
First(h, E) == IF \E i \in 1..Len(h) : h[i] \in E THEN CHOOSE i \in 1..Len(h) : h[i] \in E /\ \A j \in 1..(i - 1) : h[j] \notin E ELSE 0
Count(h, E) == Cardinality({i \in 1..Len(h) : h[i] \in E})

EvExtract == {"extract_ok", "extract_fail"}
EvTranscribe == {"transcribe_none", "transcribe_empty", "transcribe_segments"}
EvCleanupDone == {"no_audio", "remove_ok", "remove_fail"}
EvCleanup == EvCleanupDone \cup {"exists_audio"}
EvWrite == {"open_ok", "open_fail", "dump_ok", "dump_fail"}

\* Reading a text back, written without the operators of the model.
DigitSet == {"0", "1", "2", "3", "4", "5", "6", "7", "8", "9"}
DigitValue(c) == CHOOSE d \in 0..9 : DigitChars[d + 1] = c
RECURSIVE Valor(_)
Valor(ds) == IF ds = <<>> THEN 0 ELSE 10 * Valor(SubSeq(ds, 1, Len(ds) - 1)) + DigitValue(ds[Len(ds)])
AllDigits(ds) == \A i \in 1..Len(ds) : ds[i] \in DigitSet
MinPart(m) == SubSeq(m, 1, Len(m) - 3)
SecPart(m) == SubSeq(m, Len(m) - 1, Len(m))
\* m reads as minutes:seconds for the whole second count s
ReadsAs(m, s) ==
    /\ Len(m) >= 5
    /\ m[Len(m) - 2] = ":"
    /\ AllDigits(MinPart(m)) /\ AllDigits(SecPart(m))
    /\ Len(MinPart(m)) > 2 => MinPart(m)[1] # "0"
    /\ Valor(MinPart(m)) = s \div 60
    /\ Valor(SecPart(m)) = s % 60
    /\ Valor(SecPart(m)) \in 0..59

\* t is u with whitespace taken off both ends, and only whitespace
IsTrimOf(t, u) ==
    /\ t = <<>> \/ (t[1] \notin Whitespace /\ t[Len(t)] \notin Whitespace)
    /\ \E i \in 0..Len(u) :
        /\ i + Len(t) <= Len(u)
        /\ SubSeq(u, i + 1, i + Len(t)) = t
        /\ \A j \in (1..i) \cup ((i + Len(t) + 1)..Len(u)) : u[j] \in Whitespace

\* the record p is what segment seg alone gives
DerivedFrom(p, seg) ==
    /\ IsTrimOf(p.parrafo_texto, seg.text)
    /\ 10 * p.tiempo_inicio_segundos - seg.start \in (-5)..5
    /\ 10 * p.tiempo_fin_segundos - seg.end \in (-5)..5
    /\ ReadsAs(p.tiempo_inicio_formato_MMSS, seg.start \div 10000)
    /\ ReadsAs(p.tiempo_fin_formato_MMSS, seg.end \div 10000)

\* C1: when a run of procesar_video_a_json whose transcription returned N > 0
\* segments writes its output successfully, the document written is a list of
\* exactly N records, the k-th with id_parrafo = k and derived from the k-th
\* segment.
C1_DocumentMatchesSegments ==
    [][\A r \in Requests :
        (pc[r] = "dump" /\ resultado[r].segments # <<>> /\ exito'[r] = "True")
        => LET doc == outFile'[RutaJson(r)]
               segs == resultado[r].segments
           IN /\ doc.kind = "array"
              /\ Len(doc.parrafos) = Len(segs)
              /\ \A k \in 1..Len(segs) :
                  /\ doc.parrafos[k].id_parrafo = k
                  /\ DerivedFrom(doc.parrafos[k], segs[k])]_vars

\* C1 witness: a request has written the document of the longest video.
C1_Witness ==
    \E r \in Requests :
        /\ Done(r) /\ Has(r, "dump_ok") /\ Has(r, "transcribe_segments")
        /\ outFile[RutaJson(r)].kind = "array"
        /\ Len(outFile[RutaJson(r)].parrafos) = MaxSegs
        /\ MaxSegs >= 2

\* C2 as stated: after a request whose transcription ran has completed, the
\* temp audio file it created is absent from disk.
C2_TempFileAbsent ==
    \A r \in Requests :
        (Done(r) /\ Has(r, "extract_ok")) => tmpFile[RutaAudio(r)].owner # r

\* C2 amended: the same, unless os.remove raised OSError in that request.
C2_TempFileAbsentUnlessRemoveFailed ==
    \A r \in Requests :
        (Done(r) /\ Has(r, "extract_ok") /\ ~Has(r, "remove_fail")) => tmpFile[RutaAudio(r)].owner # r

\* C2 witness: a request whose transcription failed has removed its audio file.
C2_Witness ==
    \E r \in Requests :
        /\ Done(r) /\ Has(r, "transcribe_none") /\ Has(r, "remove_ok")
        /\ tmpFile[RutaAudio(r)].owner = 0

\* C3: whenever transcription yields zero segments, at the end of the request
\* the output file is the placeholder document and the response is 200.
C3_PlaceholderWritten ==
    \A r \in Requests :
        (Done(r) /\ Has(r, "transcribe_empty"))
        => (outFile[RutaJson(r)] = PlaceholderDoc /\ status[r] = 200)

\* C4: every processing error (extraction, transcription, output write) makes
\* the orchestrator report failure and the endpoint answer 500, and a 200 is
\* answered only if an output document was written during the request.
C4_ErrorsAnswer500 ==
    \A r \in Requests :
        Done(r) =>
            /\ (Has(r, "extract_fail") \/ Has(r, "transcribe_none") \/ Has(r, "open_fail") \/ Has(r, "dump_fail"))
                   => (exito[r] = "False" /\ status[r] = 500)
            /\ status[r] = 200 => Has(r, "dump_ok")

\* a field that is omitted or empty, read off the body itself
Omitted(f) == f.given = FALSE \/ Len(f.val) = 0

\* C5: a request with both path fields whose video does not exist is answered
\* 404, never calls the orchestrator, and no step of it changes a file.
C5_MissingVideo404 ==
    [][\A r \in Requests :
        (/\ body'[r].kind = "object"
         /\ ~Omitted(body'[r].ruta_video_entrada)
         /\ ~Omitted(body'[r].ruta_json_salida)
         /\ body'[r].ruta_video_entrada.val \notin ExistingVideos)
        => /\ pc'[r] = "done" /\ status'[r] = 404 /\ exito'[r] = "none"
           /\ \A i \in 1..Len(hist'[r]) : hist'[r][i] = "exists_video"
           /\ pc'[r] # pc[r] => (outFile' = outFile /\ dirs' = dirs /\ tmpFile' = tmpFile)]_vars

\* C5 witness: a request was answered 404 while an output file with earlier
\* content is at the path it names.
C5_Witness ==
    \E r \in Requests :
        /\ status[r] = 404
        /\ outFile[RutaJson(r)] = OldContent

\* C6: a JSON body that omits either path field, or gives it empty, is answered
\* 400 with nothing done: no existence check, no directory made, no
\* orchestrator call.
C6_MissingField400 ==
    \A r \in Requests :
        (body[r].kind = "object" /\ (Omitted(body[r].ruta_video_entrada) \/ Omitted(body[r].ruta_json_salida)))
        => (Done(r) /\ status[r] = 400 /\ hist[r] = <<>> /\ exito[r] = "none")

\* C6 witness: a request without ruta_json_salida for a video that exists, and
\* one with an empty ruta_video_entrada, were both answered.
C6_Witness ==
    \E r, q \in Requests :
        /\ status[r] = 400 /\ ~body[r].ruta_json_salida.given
        /\ body[r].ruta_video_entrada.val \in ExistingVideos
        /\ status[q] = 400 /\ body[q].ruta_video_entrada = Field(TRUE, <<>>)

\* C7: a request that ends in failure leaves no truncated or partly written
\* document at its output path.
C7_NoPartialOutput ==
    \A r \in Requests :
        (Done(r) /\ status[r] # 200 /\ Has(r, "open_ok")) => outFile[RutaJson(r)].kind # "partial"

\* C8: no request writes, reads for transcription, or deletes the temp audio
\* file of another request in flight.
C8_TempFileExclusive ==
    \A r \in Requests : foreign[r] = {}

\* C9: formatear_tiempo of a whole second count s is s div 60 in at least two
\* digits, ':' and s mod 60 in exactly two digits.
C9_FormatearTiempo ==
    mmss # <<>> =>
        /\ ReadsAs(mmss, segundos)
        /\ Len(MinPart(mmss)) >= 2 /\ Len(SecPart(mmss)) = 2
        /\ segundos < 6000 => Len(mmss) = 5
        /\ segundos = 0 => mmss = <<"0", "0", ":", "0", "0">>
        /\ segundos = 59 => mmss = <<"0", "0", ":", "5", "9">>
        /\ segundos = 60 => mmss = <<"0", "1", ":", "0", "0">>
        /\ segundos = 3661 => mmss = <<"6", "1", ":", "0", "1">>

\* C9 witness: 3661 seconds were formatted.
C9_Witness == segundos = 3661 /\ mmss = <<"6", "1", ":", "0", "1">>

\* C10: the stages of a run happen only in the order extraction,
\* transcription, deletion attempt, output write: transcription only after a
\* successful extraction, the deletion attempt after transcription on both of
\* its outcomes, the output opened only after the deletion attempt and only
\* when transcription did not return None.
C10_StageOrder ==
    \A r \in Requests :
        LET h == hist[r]
            stage(e) == IF e \in EvExtract THEN 1 ELSE IF e \in EvTranscribe THEN 2 ELSE IF e \in EvCleanup THEN 3 ELSE IF e \in EvWrite THEN 4 ELSE 0
        IN /\ \A i, j \in 1..Len(h) : i < j => stage(h[i]) <= stage(h[j])
           /\ Count(h, EvExtract) <= 1 /\ Count(h, EvTranscribe) <= 1 /\ Count(h, EvCleanupDone) <= 1
           /\ Has(r, "extract_fail") => (h[Len(h)] = "extract_fail" /\ Done(r))
           /\ Count(h, EvTranscribe) = 1 => Has(r, "extract_ok")
           /\ (Count(h, EvTranscribe) = 1 /\ pc[r] \notin {"cleanup", "remove"}) => Count(h, EvCleanupDone) = 1
           /\ Count(h, EvWrite) > 0 => (Count(h, EvCleanupDone) = 1 /\ ~Has(r, "transcribe_none"))
           /\ pc[r] \in {"open", "dump"} => (Count(h, EvCleanupDone) = 1 /\ ~Has(r, "transcribe_none"))

\* C10 witness: one request went through all four stages and another made
\* its deletion attempt after a transcription that returned None.
C10_Witness ==
    \E r, q \in Requests :
        /\ Done(r) /\ Has(r, "extract_ok") /\ Has(r, "transcribe_segments") /\ Has(r, "remove_ok") /\ Has(r, "dump_ok")
        /\ Done(q) /\ Has(q, "transcribe_none") /\ Count(hist[q], EvCleanupDone) = 1

=============================================================================
